---- MODULE Spec2Model ----
(***************************************************************************)
(* Towers of Hanoi: the game state (gameState.js), the move engine         *)
(* (gameEngine.js) and the solver / auto-solve sequencer (solverEngine.js) *)
(* as a state machine.  Operations of the engine are operators on a game   *)
(* state record, computed as the code computes them; the actions apply     *)
(* them to the live game state and record the value the call returned.     *)
(* Timestamps (Date objects) and rendering data are left out.  The         *)
(* machines share the state: Spec (makeMove, undoLastMove), SpecCommands    *)
(* (all five engine commands), SpecAuto (the commands together with the    *)
(* auto-solve sequencer, its timers and its animation callbacks), SpecRun  *)
(* (the sequencer alone, scheduled fairly), SpecSolver (the solver's       *)
(* queries), SpecOptions (the sequencer's speed), SpecReset (reset and     *)
(* disk count change of main.js), SpecNewGame (createGameState),           *)
(* SpecSequence (move sequences) and SpecApp (main.js as it starts).       *)
(***************************************************************************)
EXTENDS Integers, Sequences, FiniteSets, TLC

\* ---------------------------------------------------------------- bounds
MaxN == 3            \* largest disk count the model starts a game with
MaxMoves == 7        \* cap on moveCount (2^3 - 1 moves solve a 3-disk game)
MaxManual == 1       \* manual commands issued around the auto-solve runs
MaxTimers == 2       \* timers outstanding at one time
MaxAnimations == 2   \* disk-move animations running or queued at one time
MaxSolverDisks == 4  \* largest disk count the solver is queried on
MaxSetup == 2        \* manual moves made before the solver is queried
MaxSequence == 2     \* longest array of moves passed to executeMoveSequence

\* ------------------------------------------------------ program constants
MinDisks == 3
DefaultDisks == 3    \* createGameState(numDisks = 3)
MaxDisks == 8
MinAnimationSpeed == 100
DefaultAnimationSpeed == 300
Null == -1           \* JavaScript null (selectedDisk, selectedRod, intervalId)

Rods == 0..2
\* arguments a caller can pass as a rod index, inside and outside 0..2
RodInputs == -1..3

\* --------------------------------------------------------- gameState.js
Last(s) == s[Len(s)]
Front(s) == SubSeq(s, 1, Len(s) - 1)

\* initialDisks of createGameState: numDisks, numDisks-1, ..., 1
InitialDisks(numDisks) == [i \in 1..numDisks |-> numDisks + 1 - i]

Pow2(n) == IF n = 0 THEN 1 ELSE LET p[k \in 0..n] == IF k = 0 THEN 1 ELSE 2 * p[k - 1] IN p[n]

\* rods[r] is the array rods[r].disks and rodIds[r] the property rods[r].id
createGameState(numDisks) ==
    [ rods |-> [r \in Rods |-> IF r = 0 THEN InitialDisks(numDisks) ELSE << >>],
      rodIds |-> [r \in Rods |-> r],
      selectedDisk |-> Null,
      selectedRod |-> Null,
      moveCount |-> 0,
      gameComplete |-> FALSE,
      moveHistory |-> << >>,
      settings |-> [numDisks |-> numDisks, animationSpeed |-> DefaultAnimationSpeed],
      metadata |-> [optimalMoves |-> Pow2(numDisks) - 1] ]

\* The object literal initializeGameState of main.js builds: rods without
\* an id, settings without an animationSpeed (undefined, here Null).
initializeGameState(initialDiskCount) ==
    [ rods |-> [r \in Rods |-> IF r = 0 THEN InitialDisks(initialDiskCount) ELSE << >>],
      rodIds |-> [r \in Rods |-> Null],
      selectedDisk |-> Null,
      selectedRod |-> Null,
      moveCount |-> 0,
      gameComplete |-> FALSE,
      moveHistory |-> << >>,
      settings |-> [numDisks |-> initialDiskCount, animationSpeed |-> Null],
      metadata |-> [optimalMoves |-> Pow2(initialDiskCount) - 1] ]

createMove(fromRod, toRod, diskId, moveNumber) ==
    [fromRod |-> fromRod, toRod |-> toRod, diskId |-> diskId, moveNumber |-> moveNumber]

\* rods.flatMap(rod => rod.disks)
AllDisks(gs) == gs.rods[0] \o gs.rods[1] \o gs.rods[2]

\* TRUE where validateGameState returns true, FALSE where it throws
validateGameState(gs) ==
    LET allDisks == AllDisks(gs)
        uniqueDisks == {allDisks[i] : i \in 1..Len(allDisks)}
    IN
    /\ \A r \in Rods : gs.rodIds[r] = r
    /\ \A r \in Rods : \A j \in 2..Len(gs.rods[r]) : gs.rods[r][j] < gs.rods[r][j - 1]
    /\ Len(allDisks) = gs.settings.numDisks
    /\ Cardinality(uniqueDisks) = gs.settings.numDisks
    /\ \A d \in 1..gs.settings.numDisks : d \in uniqueDisks
    /\ gs.settings.numDisks >= MinDisks /\ gs.settings.numDisks <= MaxDisks
    /\ gs.settings.animationSpeed # Null /\ gs.settings.animationSpeed >= MinAnimationSpeed
    /\ gs.moveCount >= 0
    /\ Len(gs.moveHistory) = gs.moveCount

\* isGameWon that accepts the full tower on the middle rod as well
isGameWon_AnyTargetRod(gs) ==
    \E r \in {1, 2} :
        /\ Len(gs.rods[r]) = gs.settings.numDisks
        /\ \A i \in 0..(gs.settings.numDisks - 1) : gs.rods[r][i + 1] = gs.settings.numDisks - i

isGameWon(gs) ==
    /\ Len(gs.rods[2]) = gs.settings.numDisks
    /\ \A i \in 0..(gs.settings.numDisks - 1) : gs.rods[2][i + 1] = gs.settings.numDisks - i

\* --------------------------------------------------------- gameEngine.js
NoError == "NONE"

\* Number.isInteger(x) && 0 <= x && x <= 2
IsRodIndex(x) == x \in Int /\ x >= 0 /\ x <= 2

\* validateMove without the size rule of lines 124-146
validateMove_NoSizeRule(gs, fromRod, toRod) ==
    IF ~validateGameState(gs) THEN [isValid |-> FALSE, error |-> "INVALID_GAME_STATE"]
    ELSE IF gs.gameComplete THEN [isValid |-> FALSE, error |-> "GAME_COMPLETE"]
    ELSE IF ~IsRodIndex(fromRod) THEN [isValid |-> FALSE, error |-> "INVALID_SOURCE_ROD"]
    ELSE IF ~IsRodIndex(toRod) THEN [isValid |-> FALSE, error |-> "INVALID_TARGET_ROD"]
    ELSE IF fromRod = toRod THEN [isValid |-> FALSE, error |-> "SAME_ROD"]
    ELSE IF Len(gs.rods[fromRod]) = 0 THEN [isValid |-> FALSE, error |-> "EMPTY_SOURCE_ROD"]
    ELSE [isValid |-> TRUE, error |-> NoError]

\* validateMove with the target rod checked before the source rod
validateMove_TargetFirst(gs, fromRod, toRod) ==
    IF ~validateGameState(gs) THEN [isValid |-> FALSE, error |-> "INVALID_GAME_STATE"]
    ELSE IF gs.gameComplete THEN [isValid |-> FALSE, error |-> "GAME_COMPLETE"]
    ELSE IF ~IsRodIndex(toRod) THEN [isValid |-> FALSE, error |-> "INVALID_TARGET_ROD"]
    ELSE IF ~IsRodIndex(fromRod) THEN [isValid |-> FALSE, error |-> "INVALID_SOURCE_ROD"]
    ELSE IF fromRod = toRod THEN [isValid |-> FALSE, error |-> "SAME_ROD"]
    ELSE IF Len(gs.rods[fromRod]) = 0 THEN [isValid |-> FALSE, error |-> "EMPTY_SOURCE_ROD"]
    ELSE IF Len(gs.rods[toRod]) > 0 /\ Last(gs.rods[fromRod]) >= Last(gs.rods[toRod])
         THEN [isValid |-> FALSE, error |-> "LARGER_ON_SMALLER"]
    ELSE [isValid |-> TRUE, error |-> NoError]

validateMove(gs, fromRod, toRod) ==
    IF ~validateGameState(gs) THEN [isValid |-> FALSE, error |-> "INVALID_GAME_STATE"]
    ELSE IF gs.gameComplete THEN [isValid |-> FALSE, error |-> "GAME_COMPLETE"]
    ELSE IF ~IsRodIndex(fromRod) THEN [isValid |-> FALSE, error |-> "INVALID_SOURCE_ROD"]
    ELSE IF ~IsRodIndex(toRod) THEN [isValid |-> FALSE, error |-> "INVALID_TARGET_ROD"]
    ELSE IF fromRod = toRod THEN [isValid |-> FALSE, error |-> "SAME_ROD"]
    ELSE IF Len(gs.rods[fromRod]) = 0 THEN [isValid |-> FALSE, error |-> "EMPTY_SOURCE_ROD"]
    ELSE IF Len(gs.rods[toRod]) > 0 /\ Last(gs.rods[fromRod]) >= Last(gs.rods[toRod])
         THEN [isValid |-> FALSE, error |-> "LARGER_ON_SMALLER"]
    ELSE [isValid |-> TRUE, error |-> NoError]

\* the value a call of the engine returns, with the game state it leaves
Result(success, error, diskMoved, fromRod, toRod, complete, gs) ==
    [success |-> success, error |-> error, diskMoved |-> diskMoved,
     fromRod |-> fromRod, toRod |-> toRod, gameComplete |-> complete, gameState |-> gs]

\* Array.prototype.pop: the popped value (undefined, here Null, on an empty array)
Popped(s) == IF Len(s) = 0 THEN Null ELSE Last(s)
AfterPop(s) == IF Len(s) = 0 THEN s ELSE Front(s)

\* ApplyMove that copies the top disk to the target and leaves it on the source
ApplyMove_KeepsSource(gs, fromRod, toRod) ==
    LET diskToMove == Last(gs.rods[fromRod])
        move == createMove(fromRod, toRod, diskToMove, gs.moveCount + 1)
        moved == [gs EXCEPT !.rods[toRod] = Append(@, diskToMove),
                            !.moveCount = @ + 1,
                            !.moveHistory = Append(@, move),
                            !.selectedDisk = Null,
                            !.selectedRod = Null]
    IN  IF isGameWon(moved) /\ ~moved.gameComplete
        THEN [moved EXCEPT !.gameComplete = TRUE]
        ELSE moved

\* ApplyMove that keeps the selection
ApplyMove_KeepsSelection(gs, fromRod, toRod) ==
    LET diskToMove == Last(gs.rods[fromRod])
        move == createMove(fromRod, toRod, diskToMove, gs.moveCount + 1)
        moved == [gs EXCEPT !.rods[fromRod] = AfterPop(@),
                            !.rods[toRod] = Append(@, Popped(gs.rods[fromRod])),
                            !.moveCount = @ + 1,
                            !.moveHistory = Append(@, move)]
    IN  IF isGameWon(moved) /\ ~moved.gameComplete
        THEN [moved EXCEPT !.gameComplete = TRUE]
        ELSE moved

\* lines 377-396 of makeMove: the state after a validated move
ApplyMove(gs, fromRod, toRod) ==
    LET diskToMove == Last(gs.rods[fromRod])
        move == createMove(fromRod, toRod, diskToMove, gs.moveCount + 1)
        moved == [gs EXCEPT !.rods[fromRod] = AfterPop(@),
                            !.rods[toRod] = Append(@, Popped(gs.rods[fromRod])),
                            !.moveCount = @ + 1,
                            !.moveHistory = Append(@, move),
                            !.selectedDisk = Null,
                            !.selectedRod = Null]
    IN  IF isGameWon(moved) /\ ~moved.gameComplete
        THEN [moved EXCEPT !.gameComplete = TRUE]
        ELSE moved

\* makeMove that clears the selection before it validates
makeMove_ClearsSelectionFirst(gs, fromRod, toRod) ==
    LET cleared == [gs EXCEPT !.selectedDisk = Null, !.selectedRod = Null]
        validation == validateMove(cleared, fromRod, toRod)
    IN
    IF ~validation.isValid
    THEN Result(FALSE, validation.error, Null, Null, Null, cleared.gameComplete, cleared)
    ELSE LET after == ApplyMove(cleared, fromRod, toRod) IN
         Result(TRUE, NoError, Last(gs.rods[fromRod]), fromRod, toRod, after.gameComplete, after)

makeMove(gs, fromRod, toRod) ==
    LET validation == validateMove(gs, fromRod, toRod) IN
    IF ~validation.isValid
    THEN Result(FALSE, validation.error, Null, Null, Null, gs.gameComplete, gs)
    ELSE LET after == ApplyMove(gs, fromRod, toRod) IN
         Result(TRUE, NoError, Last(gs.rods[fromRod]), fromRod, toRod, after.gameComplete, after)

\* ApplyUndo that replays the record forward: pops fromRod, pushes onto toRod
ApplyUndo_NotReversed(gs) ==
    LET lastMove == Last(gs.moveHistory) IN
    [gs EXCEPT !.moveHistory = Front(@),
               !.rods[lastMove.fromRod] = AfterPop(@),
               !.rods[lastMove.toRod] = Append(@, Popped(gs.rods[lastMove.fromRod])),
               !.moveCount = @ - 1,
               !.selectedDisk = Null,
               !.selectedRod = Null]

\* ApplyUndo that leaves the popped record in the history
ApplyUndo_KeepsRecord(gs) ==
    LET lastMove == Last(gs.moveHistory) IN
    [gs EXCEPT !.rods[lastMove.toRod] = AfterPop(@),
               !.rods[lastMove.fromRod] = Append(@, Popped(gs.rods[lastMove.toRod])),
               !.moveCount = @ - 1,
               !.selectedDisk = Null,
               !.selectedRod = Null]

\* lines 439-454 of undoLastMove: the state after popping the last move
ApplyUndo(gs) ==
    LET lastMove == Last(gs.moveHistory) IN
    [gs EXCEPT !.moveHistory = Front(@),
               !.rods[lastMove.toRod] = AfterPop(@),
               !.rods[lastMove.fromRod] = Append(@, Popped(gs.rods[lastMove.toRod])),
               !.moveCount = @ - 1,
               !.selectedDisk = Null,
               !.selectedRod = Null]

\* undoLastMove without the completed-game guard of lines 427-437
undoLastMove_NoCompleteGuard(gs) ==
    IF Len(gs.moveHistory) = 0
    THEN Result(FALSE, "NO_MOVES_TO_UNDO", Null, Null, Null, gs.gameComplete, gs)
    ELSE LET lastMove == Last(gs.moveHistory)
             after == ApplyUndo(gs)
         IN  Result(TRUE, NoError, Popped(gs.rods[lastMove.toRod]),
                    lastMove.toRod, lastMove.fromRod, after.gameComplete, after)

undoLastMove(gs) ==
    IF Len(gs.moveHistory) = 0
    THEN Result(FALSE, "NO_MOVES_TO_UNDO", Null, Null, Null, gs.gameComplete, gs)
    ELSE IF gs.gameComplete
    THEN Result(FALSE, "CANNOT_UNDO_COMPLETE_GAME", Null, Null, Null, gs.gameComplete, gs)
    ELSE LET lastMove == Last(gs.moveHistory)
             after == ApplyUndo(gs)
         IN  Result(TRUE, NoError, Popped(gs.rods[lastMove.toRod]),
                    lastMove.toRod, lastMove.fromRod, after.gameComplete, after)

selectDisk(gs, rodIndex) ==
    IF ~IsRodIndex(rodIndex)
    THEN Result(FALSE, "INVALID_ROD_INDEX", Null, Null, Null, gs.gameComplete, gs)
    ELSE IF Len(gs.rods[rodIndex]) = 0
    THEN Result(FALSE, "EMPTY_ROD_SELECTION", Null, Null, Null, gs.gameComplete, gs)
    ELSE Result(TRUE, NoError, Null, rodIndex, Null, gs.gameComplete,
                [gs EXCEPT !.selectedDisk = Last(gs.rods[rodIndex]),
                           !.selectedRod = rodIndex])

clearSelection(gs) ==
    Result(TRUE, NoError, Null, Null, Null, gs.gameComplete,
           [gs EXCEPT !.selectedDisk = Null, !.selectedRod = Null])

moveSelectedDisk(gs, targetRod) ==
    IF gs.selectedDisk = Null \/ gs.selectedRod = Null
    THEN Result(FALSE, "NO_DISK_SELECTED", Null, Null, Null, gs.gameComplete, gs)
    ELSE makeMove(gs, gs.selectedRod, targetRod)

\* -------------------------------------------------------- solverEngine.js
\* calculateMinimumMoves without the - 1
calculateMinimumMoves_PowerOnly(numDisks) == Pow2(numDisks)

calculateMinimumMoves(numDisks) == Pow2(numDisks) - 1

\* positions[diskSize - 1] = rodIndex; a disk on no rod is left undefined
getCurrentDiskPositions(gs) ==
    [d \in 1..gs.settings.numDisks |->
        IF \E r \in Rods : \E i \in 1..Len(gs.rods[r]) : gs.rods[r][i] = d
        THEN CHOOSE r \in Rods :
                /\ \E i \in 1..Len(gs.rods[r]) : gs.rods[r][i] = d
                /\ \A q \in Rods : q > r => \A i \in 1..Len(gs.rods[q]) : gs.rods[q][i] # d
        ELSE Null]

isGameComplete(diskPositions) == \A d \in DOMAIN diskPositions : diskPositions[d] = 2

\* the largest disk on rodIndex, whatever `size` is; Null when the rod is empty
findDiskAtPosition(size, rodIndex, diskPositions) ==
    IF \E d \in DOMAIN diskPositions : diskPositions[d] = rodIndex
    THEN CHOOSE d \in DOMAIN diskPositions :
            /\ diskPositions[d] = rodIndex
            /\ \A e \in DOMAIN diskPositions : diskPositions[e] = rodIndex => e <= d
    ELSE Null

\* lines 105-113 and 121-129: push the move of the disk found on source
PushMove(n, source, target, acc) ==
    LET diskSize == findDiskAtPosition(n, source, acc.diskPositions) IN
    IF diskSize # Null /\ acc.diskPositions[diskSize] = source
    THEN [solution |-> Append(acc.solution, [from |-> source, to |-> target, disk |-> diskSize]),
          diskPositions |-> [acc.diskPositions EXCEPT ![diskSize] = target]]
    ELSE acc

RECURSIVE solveTowersOfHanoi(_, _, _, _, _)
solveTowersOfHanoi(n, source, target, auxiliary, acc) ==
    IF n = 1
    THEN PushMove(n, source, target, acc)
    ELSE LET first == solveTowersOfHanoi(n - 1, source, auxiliary, target, acc) IN
         IF findDiskAtPosition(n, source, first.diskPositions) # Null
         THEN solveTowersOfHanoi(n - 1, auxiliary, target, source,
                                 PushMove(n, source, target, first))
         ELSE solveTowersOfHanoi(n - 1, auxiliary, target, source, first)

generateOptimalSolution_WrongTarget(gs) ==
    LET diskPositions == getCurrentDiskPositions(gs) IN
    IF isGameComplete(diskPositions)
    THEN << >>
    ELSE solveTowersOfHanoi(gs.settings.numDisks, 0, 1, 2,
                            [solution |-> << >>, diskPositions |-> diskPositions]).solution

generateOptimalSolution(gs) ==
    LET diskPositions == getCurrentDiskPositions(gs) IN
    IF isGameComplete(diskPositions)
    THEN << >>
    ELSE solveTowersOfHanoi(gs.settings.numDisks, 0, 2, 1,
                            [solution |-> << >>, diskPositions |-> diskPositions]).solution

getNextOptimalMove_Last(gs) ==
    LET solution == generateOptimalSolution(gs) IN
    IF Len(solution) > 0 THEN <<solution[Len(solution)]>> ELSE << >>

getNextOptimalMove(gs) ==
    LET solution == generateOptimalSolution(gs) IN
    IF Len(solution) > 0 THEN <<solution[1]>> ELSE << >>

DefaultSpeed == 1000    \* ms between moves (constructor, options.speed || 1000)
MinSpeed == 100         \* setAutoSolveSpeed: Math.max(100, speed)

\* autoSolveState of the SolverEngine constructor
IdleAutoSolveState ==
    [isRunning |-> FALSE, isPaused |-> FALSE, currentStep |-> 0,
     solution |-> << >>, intervalId |-> Null]

\* The sequencer's methods call one another, so each is an operator on a
\* record w of everything they touch: the game state the solver refers to,
\* autoSolveState, the timers setTimeout has pending, the number of
\* disk-move animations (running or queued) that carry the sequencer's
\* completion callback, the number of times the onComplete callback of the
\* last options has been invoked, and the value the last makeMove returned.
World(gs, as, tm, an, oc, sp) ==
    [gameState |-> gs, autoSolveState |-> as, timers |-> tm, animations |-> an,
     onCompleteCalls |-> oc, speed |-> sp, result |-> << >>]

\* setTimeout returns an id no pending timer has; a stale intervalId is never reused
FreshTimer(w) ==
    CHOOSE id \in 1..(Cardinality(w.timers) + 2) :
        /\ id \notin w.timers
        /\ id # w.autoSolveState.intervalId
        /\ \A other \in 1..(id - 1) : other \in w.timers \/ other = w.autoSolveState.intervalId

\* this.autoSolveState.intervalId = setTimeout(() => this.executeNextMove(), speed)
ScheduleNext(w) ==
    [w EXCEPT !.timers = @ \cup {FreshTimer(w)},
              !.autoSolveState.intervalId = FreshTimer(w)]

\* if (intervalId) { clearTimeout(intervalId); intervalId = null; }
ClearInterval(w) ==
    IF w.autoSolveState.intervalId # Null
    THEN [w EXCEPT !.timers = @ \ {w.autoSolveState.intervalId},
                   !.autoSolveState.intervalId = Null]
    ELSE w

stopAutoSolve_KeepsRunning(w) ==
    LET cleared == ClearInterval(w)
    IN  [cleared EXCEPT !.autoSolveState.currentStep = 0,
                        !.autoSolveState.solution = << >>]

stopAutoSolve(w) ==
    LET stopped == [w EXCEPT !.autoSolveState.isRunning = FALSE,
                             !.autoSolveState.isPaused = FALSE]
        cleared == ClearInterval(stopped)
    IN  [cleared EXCEPT !.autoSolveState.currentStep = 0,
                        !.autoSolveState.solution = << >>]

executeNextMove_SkipsRejected(w, hasAnimation) ==
    IF ~w.autoSolveState.isRunning \/ w.autoSolveState.isPaused
    THEN w
    ELSE IF w.autoSolveState.currentStep >= Len(w.autoSolveState.solution)
    THEN stopAutoSolve([w EXCEPT !.onCompleteCalls = @ + 1])
    ELSE LET move == w.autoSolveState.solution[w.autoSolveState.currentStep + 1]
             res == makeMove(w.gameState, move.from, move.to)
             made == [w EXCEPT !.gameState = res.gameState,
                               !.result = <<res>>,
                               !.autoSolveState.currentStep = @ + 1]
         IN  IF res.success /\ hasAnimation
             THEN [made EXCEPT !.animations = @ + 1]
             ELSE ScheduleNext(made)

executeNextMove_IgnoresPause(w, hasAnimation) ==
    IF ~w.autoSolveState.isRunning
    THEN w
    ELSE IF w.autoSolveState.currentStep >= Len(w.autoSolveState.solution)
    THEN stopAutoSolve([w EXCEPT !.onCompleteCalls = @ + 1])
    ELSE LET move == w.autoSolveState.solution[w.autoSolveState.currentStep + 1]
             res == makeMove(w.gameState, move.from, move.to)
             made == [w EXCEPT !.gameState = res.gameState,
                               !.result = <<res>>,
                               !.autoSolveState.currentStep = @ + 1]
         IN  IF res.success
             THEN IF hasAnimation
                  THEN [made EXCEPT !.animations = @ + 1]
                  ELSE ScheduleNext(made)
             ELSE stopAutoSolve([w EXCEPT !.result = <<res>>])

executeNextMove(w, hasAnimation) ==
    IF ~w.autoSolveState.isRunning \/ w.autoSolveState.isPaused
    THEN w
    ELSE IF w.autoSolveState.currentStep >= Len(w.autoSolveState.solution)
    THEN stopAutoSolve([w EXCEPT !.onCompleteCalls = @ + 1])
    ELSE LET move == w.autoSolveState.solution[w.autoSolveState.currentStep + 1]
             res == makeMove(w.gameState, move.from, move.to)
             made == [w EXCEPT !.gameState = res.gameState,
                               !.result = <<res>>,
                               !.autoSolveState.currentStep = @ + 1]
         IN  IF res.success
             THEN IF hasAnimation
                  THEN [made EXCEPT !.animations = @ + 1]
                  ELSE ScheduleNext(made)
             ELSE stopAutoSolve([w EXCEPT !.result = <<res>>])

\* options.speed || 1000: a speed that is absent or 0 gives the default
OptionOrDefault(option, default) == IF option = Null \/ option = 0 THEN default ELSE option

startAutoSolve_NoRunningGuard(w, hasAnimation, options) ==
    LET started == [w EXCEPT !.speed = OptionOrDefault(options.speed, DefaultSpeed),
                             !.onCompleteCalls = 0,
                             !.autoSolveState.solution = generateOptimalSolution(w.gameState),
                             !.autoSolveState.currentStep = 0,
                             !.autoSolveState.isRunning = TRUE,
                             !.autoSolveState.isPaused = FALSE]
    IN  IF Len(started.autoSolveState.solution) = 0
        THEN stopAutoSolve([started EXCEPT !.onCompleteCalls = @ + 1])
        ELSE executeNextMove(started, hasAnimation)

startAutoSolve(w, hasAnimation, options) ==
    IF w.autoSolveState.isRunning
    THEN w
    ELSE LET started == [w EXCEPT !.speed = OptionOrDefault(options.speed, DefaultSpeed),
                                  !.onCompleteCalls = 0,
                                  !.autoSolveState.solution = generateOptimalSolution(w.gameState),
                                  !.autoSolveState.currentStep = 0,
                                  !.autoSolveState.isRunning = TRUE,
                                  !.autoSolveState.isPaused = FALSE]
         IN  IF Len(started.autoSolveState.solution) = 0
             THEN stopAutoSolve([started EXCEPT !.onCompleteCalls = @ + 1])
             ELSE executeNextMove(started, hasAnimation)

pauseAutoSolve(w) ==
    IF ~w.autoSolveState.isRunning \/ w.autoSolveState.isPaused
    THEN w
    ELSE ClearInterval([w EXCEPT !.autoSolveState.isPaused = TRUE])

resumeAutoSolve_SkipsMove(w, hasAnimation) ==
    IF ~w.autoSolveState.isRunning \/ ~w.autoSolveState.isPaused
    THEN w
    ELSE executeNextMove([w EXCEPT !.autoSolveState.isPaused = FALSE,
                                   !.autoSolveState.currentStep = @ + 1], hasAnimation)

resumeAutoSolve(w, hasAnimation) ==
    IF ~w.autoSolveState.isRunning \/ ~w.autoSolveState.isPaused
    THEN w
    ELSE executeNextMove([w EXCEPT !.autoSolveState.isPaused = FALSE], hasAnimation)

\* the callback executeNextMove hands to animateDiskMove (lines 236-243)
AnimationCallback_NeverSchedules(w) == w

AnimationCallback(w) ==
    IF w.autoSolveState.isRunning /\ ~w.autoSolveState.isPaused
    THEN ScheduleNext(w)
    ELSE w

\* AnimationSystem.completeCurrentAnimation: run onComplete, drop the animation
completeCurrentAnimation(w) ==
    [AnimationCallback(w) EXCEPT !.animations = @ - 1]

\* ------------------------------------------ gameEngine.js: move sequences
\* The loop of validateMoveSequence from index i - 1 on, on the clone
\* currentState: a move that validates is simulated by pop, push and
\* moveCount++ and nothing else.
RECURSIVE ValidateFrom(_, _, _, _)
ValidateFrom(currentState, moves, i, validatedMoves) ==
    IF i > Len(moves)
    THEN [isValid |-> TRUE, error |-> NoError, validatedMoves |-> validatedMoves,
          failedMoveIndex |-> Null]
    ELSE LET move == moves[i]
             validation == validateMove(currentState, move.fromRod, move.toRod)
         IN  IF ~validation.isValid
             THEN [isValid |-> FALSE, error |-> validation.error,
                   validatedMoves |-> validatedMoves, failedMoveIndex |-> i - 1]
             ELSE LET diskToMove == Last(currentState.rods[move.fromRod])
                      simulated ==
                          [currentState EXCEPT !.rods[move.fromRod] = Front(@),
                                               !.rods[move.toRod] = Append(@, diskToMove),
                                               !.moveCount = @ + 1]
                  IN  ValidateFrom(simulated, moves, i + 1,
                                   Append(validatedMoves,
                                          [fromRod |-> move.fromRod, toRod |-> move.toRod,
                                           moveNumber |-> i, diskToMove |-> diskToMove]))

validateMoveSequence(gs, moves) == ValidateFrom(gs, moves, 1, << >>)

\* The loop of executeMoveSequence from index i - 1 on: makeMove on the live
\* state, and Object.assign(gameState, originalState) where a move fails.
RECURSIVE ExecuteFrom(_, _, _, _)
ExecuteFrom(gs, moves, i, originalState) ==
    IF i > Len(moves)
    THEN Result(TRUE, NoError, Null, Null, Null, gs.gameComplete, gs)
    ELSE LET res == makeMove(gs, moves[i].fromRod, moves[i].toRod)
         IN  IF ~res.success
             THEN Result(FALSE, res.error, Null, Null, Null,
                         originalState.gameComplete, originalState)
             ELSE ExecuteFrom(res.gameState, moves, i + 1, originalState)

executeMoveSequence(gs, moves) ==
    LET validation == validateMoveSequence(gs, moves)
    IN  IF ~validation.isValid
        THEN Result(FALSE, validation.error, Null, Null, Null, gs.gameComplete, gs)
        ELSE ExecuteFrom(gs, moves, 1, gs)

\* ------------------------------------------------------------ the machine
VARIABLES
    gameState,        \* the live game state object
    result,           \* the call made last and the value it returned
    autoSolveState,   \* SolverEngine.autoSolveState
    timers,           \* ids of the setTimeout timers that are pending
    animations,       \* animations pending with the sequencer's callback
    hasAnimation,     \* an animation system is attached to the solver
    manualCount,      \* manual commands issued so far (counted under SpecAuto)
    onCompleteCalls,  \* invocations of the onComplete callback of the last options
    speed,            \* autoSolveState.speed
    solution,         \* the array the last generateOptimalSolution() call returned
    nextMove,         \* the value the last getNextOptimalMove() call returned
    replayed,         \* elements of `solution` replayed through makeMove so far
    refs,             \* the game state object each component refers to, by object id
    heap              \* the game state objects created after start-up: object i is heap[i]

vars == <<gameState, result, autoSolveState, timers, animations, hasAnimation, manualCount,
          onCompleteCalls, speed, solution, nextMove, replayed, refs, heap>>
refVars == <<refs, heap>>
solverVars == <<autoSolveState, timers, animations, hasAnimation, onCompleteCalls, speed>>
queryVars == <<solution, nextMove, replayed>>

\* what a caller sees of a returned value, tagged with the call
Return(op, res) ==
    [op |-> op, success |-> res.success, error |-> res.error, diskMoved |-> res.diskMoved,
     fromRod |-> res.fromRod, toRod |-> res.toRod, gameComplete |-> res.gameComplete]

NoReturn(op) ==
    [op |-> op, success |-> TRUE, error |-> NoError, diskMoved |-> Null,
     fromRod |-> Null, toRod |-> Null, gameComplete |-> FALSE]

\* The object main.js builds at start-up and hands to the input handler and
\* to the solver engine is object 0; it is the variable gameState.
StartUpObject == 0

\* The components built around the game state gs that `op` returned;
\* inputRef is Null where no InputHandler could be constructed.
ConstructedWith(gs, op, animationSystem, inputRef) ==
    /\ gameState = gs
    /\ result = NoReturn(op)
    /\ autoSolveState = IdleAutoSolveState
    /\ timers = {}
    /\ animations = 0
    /\ hasAnimation = animationSystem
    /\ manualCount = 0
    /\ onCompleteCalls = 0
    /\ speed = DefaultSpeed
    /\ solution = << >>
    /\ nextMove = << >>
    /\ replayed = Null
    /\ refs = [main |-> StartUpObject, input |-> inputRef, solver |-> StartUpObject]
    /\ heap = << >>

\* new SolverEngine(createGameState(numDisks), animationSystem)
Constructed(numDisks, animationSystem) ==
    ConstructedWith(createGameState(numDisks), "createGameState", animationSystem,
                    StartUpObject)

\* The machine of makeMove and undoLastMove, on games of MinDisks..MaxN disks.
Init == \E numDisks \in MinDisks..MaxN : Constructed(numDisks, TRUE)

\* A call of the engine on the live game state.  With counted, the call is
\* one of the at most MaxManual manual commands issued around auto-solve.
EngineCall(op, returned, counted) ==
    LET res == returned IN
    /\ counted => manualCount < MaxManual
    /\ res.gameState.moveCount <= MaxMoves
    /\ gameState' = res.gameState
    /\ result' = Return(op, res)
    /\ manualCount' = IF counted THEN manualCount + 1 ELSE manualCount
    /\ UNCHANGED <<solverVars, queryVars, refVars>>

MakeMove(fromRod, toRod, counted) ==
    EngineCall("makeMove", makeMove(gameState, fromRod, toRod), counted)

MoveSelectedDisk(targetRod, counted) ==
    EngineCall("moveSelectedDisk", moveSelectedDisk(gameState, targetRod), counted)

UndoLastMove(counted) == EngineCall("undoLastMove", undoLastMove(gameState), counted)

SelectDisk(rodIndex, counted) ==
    EngineCall("selectDisk", selectDisk(gameState, rodIndex), counted)

ClearSelection(counted) == EngineCall("clearSelection", clearSelection(gameState), counted)

Next ==
    \/ \E fromRod \in RodInputs, toRod \in RodInputs : MakeMove(fromRod, toRod, FALSE)
    \/ UndoLastMove(FALSE)

Spec == Init /\ [][Next]_vars

\* --------------------------------- the machine of all five engine commands
InitDefault == Constructed(DefaultDisks, TRUE)

NextCommands ==
    \/ \E fromRod \in RodInputs, toRod \in RodInputs : MakeMove(fromRod, toRod, FALSE)
    \/ \E targetRod \in RodInputs : MoveSelectedDisk(targetRod, FALSE)
    \/ UndoLastMove(FALSE)
    \/ \E rodIndex \in RodInputs : SelectDisk(rodIndex, FALSE)
    \/ ClearSelection(FALSE)

SpecCommands == InitDefault /\ [][NextCommands]_vars

\* ------------------------------------------------ the machine of new games
\* Games are created with any disk count a caller passes and played by makeMove.
ScenarioDisks == 2   \* createGameState(2) of the Full Game Playthrough
DiskCountInputs == ScenarioDisks..MaxN

\* TRUE where createGameState(numDisks) throws
createGameStateThrows(numDisks) == numDisks \notin Int \/ numDisks < MinDisks \/ numDisks > MaxDisks

\* gameState = createGameState(numDisks): nothing is assigned where the call throws
NewGame(numDisks) ==
    /\ gameState' = IF createGameStateThrows(numDisks) THEN gameState
                    ELSE createGameState(numDisks)
    /\ result' = IF createGameStateThrows(numDisks)
                 THEN [NoReturn("createGameState") EXCEPT !.success = FALSE,
                                                          !.error = "INVALID_DISK_COUNT"]
                 ELSE NoReturn("createGameState")
    /\ UNCHANGED <<solverVars, manualCount, queryVars, refVars>>

NextNewGame ==
    \/ \E numDisks \in DiskCountInputs : NewGame(numDisks)
    \/ \E fromRod \in Rods, toRod \in Rods : MakeMove(fromRod, toRod, FALSE)

SpecNewGame == InitDefault /\ [][NextNewGame]_vars

\* ------------------------------------------- the machine of move sequences
\* makeMove reaches the states; executeMoveSequence is called on them with
\* every array of at most MaxSequence moves between rods.
MoveInputs == [fromRod : Rods, toRod : Rods]
MoveSequences == UNION {[1..n -> MoveInputs] : n \in 0..MaxSequence}

ExecuteMoveSequence(moves) ==
    EngineCall("executeMoveSequence", executeMoveSequence(gameState, moves), FALSE)

NextSequence ==
    \/ \E fromRod \in Rods, toRod \in Rods : MakeMove(fromRod, toRod, FALSE)
    \/ \E moves \in MoveSequences : ExecuteMoveSequence(moves)

SpecSequence == InitDefault /\ [][NextSequence]_vars

\* ---------------------------------------------- the machine with auto-solve
CurrentWorld == World(gameState, autoSolveState, timers, animations, onCompleteCalls, speed)

\* a method of the sequencer, or a timer or animation callback, has run
SolverCall(op, world) ==
    \E w \in {world} :
    /\ w.gameState.moveCount <= MaxMoves
    /\ Cardinality(w.timers) <= MaxTimers
    /\ w.animations <= MaxAnimations
    /\ gameState' = w.gameState
    /\ autoSolveState' = w.autoSolveState
    /\ timers' = w.timers
    /\ animations' = w.animations
    /\ onCompleteCalls' = w.onCompleteCalls
    /\ speed' = w.speed
    /\ result' = IF w.result = << >> THEN NoReturn(op) ELSE Return("autoSolveMove", w.result[1])
    /\ UNCHANGED <<hasAnimation, manualCount, queryVars, refVars>>

\* solverEngine.startAutoSolve({speed: ..., onComplete: ..., ...})
StartAutoSolveWith(optionSpeed) ==
    SolverCall("startAutoSolve",
               startAutoSolve(CurrentWorld, hasAnimation, [speed |-> optionSpeed]))

\* handleSolve: startAutoSolve({speed: 1000, ...})
StartAutoSolve == StartAutoSolveWith(DefaultSpeed)

\* setAutoSolveSpeed(speed)
SetAutoSolveSpeed(newSpeed) ==
    SolverCall("setAutoSolveSpeed",
               [CurrentWorld EXCEPT !.speed = IF newSpeed > MinSpeed THEN newSpeed ELSE MinSpeed])

PauseAutoSolve == SolverCall("pauseAutoSolve", pauseAutoSolve(CurrentWorld))

ResumeAutoSolve == SolverCall("resumeAutoSolve", resumeAutoSolve(CurrentWorld, hasAnimation))

StopAutoSolve == SolverCall("stopAutoSolve", stopAutoSolve(CurrentWorld))

\* a pending timer fires: () => this.executeNextMove()
TimerFires(id) ==
    /\ id \in timers
    /\ SolverCall("executeNextMove",
                  executeNextMove([CurrentWorld EXCEPT !.timers = @ \ {id}], hasAnimation))

\* the animation loop completes the current disk-move animation
AnimationCompletes ==
    /\ animations > 0
    /\ SolverCall("completeCurrentAnimation", completeCurrentAnimation(CurrentWorld))

\* manual commands name rods 0..2 here; rod arguments out of range are the
\* business of Spec and SpecCommands
NextAuto ==
    \/ \E fromRod \in Rods, toRod \in Rods : MakeMove(fromRod, toRod, TRUE)
    \/ \E targetRod \in Rods : MoveSelectedDisk(targetRod, TRUE)
    \/ UndoLastMove(TRUE)
    \/ \E rodIndex \in Rods : SelectDisk(rodIndex, TRUE)
    \/ ClearSelection(TRUE)
    \/ StartAutoSolve
    \/ PauseAutoSolve
    \/ ResumeAutoSolve
    \/ StopAutoSolve
    \/ \E id \in timers : TimerFires(id)
    \/ AnimationCompletes

InitAuto == \E animationSystem \in BOOLEAN : Constructed(DefaultDisks, animationSystem)

SpecAuto == InitAuto /\ [][NextAuto]_vars

\* ------------------------------------ the machine of undisturbed auto-solve
\* Runs that are never stopped and that no manual command interferes with.
\* The browser fires every pending timer and completes every animation, and
\* whoever pauses a run resumes it.
NextRun ==
    \/ StartAutoSolve
    \/ PauseAutoSolve
    \/ ResumeAutoSolve
    \/ \E id \in timers : TimerFires(id)
    \/ AnimationCompletes

Fairness ==
    /\ WF_vars(ResumeAutoSolve)
    /\ WF_vars(\E id \in timers : TimerFires(id))
    /\ WF_vars(AnimationCompletes)

SpecRun == InitAuto /\ [][NextRun]_vars /\ Fairness

\* ------------------------------------------ the machine of the application
\* main.js as it starts: the game state of initializeGameState, handed to
\* the solver engine and to the InputHandler, or, where no InputHandler
\* could be constructed, used by the click handler of setupSimpleInputHandling.
ClickInputs == -1..2   \* clickedRod: a rod, or -1 for a click beside the rods

InitApp ==
    \E initialDiskCount \in MinDisks..MaxN, inputRef \in {StartUpObject, Null} :
        ConstructedWith(initializeGameState(initialDiskCount), "initializeGameState",
                        TRUE, inputRef)

\* what the click handler of setupSimpleInputHandling did, as a returned value
Clicked(success, error, diskMoved, fromRod, toRod, gs) ==
    [op |-> "simpleClick", success |-> success, error |-> error, diskMoved |-> diskMoved,
     fromRod |-> fromRod, toRod |-> toRod, gameComplete |-> gs.gameComplete]

\* the game state the click handler of setupSimpleInputHandling leaves
simpleClick(gs, clickedRod) ==
    IF clickedRod = -1
    THEN [gs EXCEPT !.selectedDisk = Null, !.selectedRod = Null]
    ELSE IF gs.selectedDisk = Null
    THEN IF Len(gs.rods[clickedRod]) = 0 THEN gs
         ELSE [gs EXCEPT !.selectedDisk = Last(gs.rods[clickedRod]),
                         !.selectedRod = clickedRod]
    ELSE LET fromRod == gs.selectedRod
             sourceRod == gs.rods[fromRod]
             targetRod == gs.rods[clickedRod]
             diskToMove == Popped(sourceRod)
         IN  IF fromRod = clickedRod THEN gs
             ELSE IF Len(targetRod) = 0 \/ (diskToMove # Null /\ diskToMove < Last(targetRod))
             THEN LET moved == [gs EXCEPT !.rods[fromRod] = AfterPop(sourceRod),
                                          !.rods[clickedRod] = Append(targetRod, diskToMove),
                                          !.moveCount = @ + 1,
                                          !.selectedDisk = Null,
                                          !.selectedRod = Null]
                  IN  IF Len(moved.rods[2]) = moved.settings.numDisks
                      THEN [moved EXCEPT !.gameComplete = TRUE]
                      ELSE moved
             ELSE gs

SimpleClick(clickedRod) ==
    /\ refs.input = Null
    /\ LET after == simpleClick(gameState, clickedRod)
           moved == after.moveCount # gameState.moveCount
       IN  /\ after.moveCount <= MaxMoves
           /\ gameState' = after
           /\ result' = IF moved
                        THEN Clicked(TRUE, NoError, Last(after.rods[clickedRod]),
                                     gameState.selectedRod, clickedRod, after)
                        ELSE Clicked(after # gameState, NoError, Null, Null, clickedRod, after)
    /\ UNCHANGED <<solverVars, manualCount, queryVars, refVars>>

\* a command of the engine issued by the InputHandler
InputHandlerCall(command) == refs.input # Null /\ command

NextApp ==
    \/ \E rodIndex \in Rods : InputHandlerCall(SelectDisk(rodIndex, FALSE))
    \/ \E targetRod \in Rods : InputHandlerCall(MoveSelectedDisk(targetRod, FALSE))
    \/ \E fromRod \in Rods, toRod \in Rods : InputHandlerCall(MakeMove(fromRod, toRod, FALSE))
    \/ InputHandlerCall(ClearSelection(FALSE))
    \/ \E clickedRod \in ClickInputs : SimpleClick(clickedRod)
    \/ UndoLastMove(FALSE)
    \/ StartAutoSolve

SpecApp == InitApp /\ [][NextApp]_vars

\* ------------------------------------------- the machine of the new game
\* The sequencer with the reset button and the disk count selector of main.js.
MaxResets == 2

\* the object a reference names
Deref(id) == IF id = StartUpObject THEN gameState ELSE heap[id]

\* resetGameState(gameState): a new game of the same number of disks
resetGameState(gs) == [createGameState(gs.settings.numDisks) EXCEPT !.settings = gs.settings]

\* handleReset of main.js: the input handler exists, so InputHandler.handleReset
\* does the work, which returns while an animation is running and otherwise
\* replaces the input handler's own reference and clears the animations.
HandleReset ==
    /\ Len(heap) < MaxResets
    /\ animations = 0
    /\ heap' = Append(heap, resetGameState(Deref(refs.input)))
    /\ refs' = [refs EXCEPT !.input = Len(heap) + 1]
    /\ result' = NoReturn("handleReset")
    /\ UNCHANGED <<gameState, solverVars, manualCount, queryVars>>

\* handleDiskCountChange of main.js: replaces the variable gameState of main.js
HandleDiskCountChange(diskCount) ==
    /\ Len(heap) < MaxResets
    /\ heap' = Append(heap, createGameState(diskCount))
    /\ refs' = [refs EXCEPT !.main = Len(heap) + 1]
    /\ result' = NoReturn("handleDiskCountChange")
    /\ UNCHANGED <<gameState, solverVars, manualCount, queryVars>>

NextReset ==
    \/ StartAutoSolve
    \/ PauseAutoSolve
    \/ ResumeAutoSolve
    \/ \E id \in timers : TimerFires(id)
    \/ AnimationCompletes
    \/ HandleReset
    \/ \E diskCount \in MinDisks..MaxSolverDisks : HandleDiskCountChange(diskCount)

SpecReset == InitAuto /\ [][NextReset]_vars

\* ------------------------------------ the machine of the sequencer's options
\* The sequencer alone, started with any speed option and set to any speed.
SpeedOptions == {Null, 0, 500}
SpeedInputs == {50, 500}

NextOptions ==
    \/ \E optionSpeed \in SpeedOptions : StartAutoSolveWith(optionSpeed)
    \/ \E newSpeed \in SpeedInputs : SetAutoSolveSpeed(newSpeed)
    \/ PauseAutoSolve
    \/ ResumeAutoSolve
    \/ StopAutoSolve
    \/ \E id \in timers : TimerFires(id)
    \/ AnimationCompletes

SpecOptions == InitAuto /\ [][NextOptions]_vars

\* ------------------------------------- the machine of the solver's queries
\* Legal or illegal manual moves bring the game to a mid-game state; then
\* the solver is queried on the live state and the solution it returned is
\* replayed, one makeMove per element, until an element is rejected; the
\* next hint can be asked for at any point before that.
InitSolver == \E numDisks \in MinDisks..MaxSolverDisks : Constructed(numDisks, TRUE)

SetupMove(fromRod, toRod) ==
    /\ replayed = Null
    /\ gameState.moveCount < MaxSetup
    /\ MakeMove(fromRod, toRod, FALSE)

ReplayFailed == result.op = "replayMove" /\ ~result.success

ReplayInProgress ==
    /\ replayed # Null
    /\ replayed < Len(solution)
    /\ ~ReplayFailed

\* const solution = solverEngine.generateOptimalSolution()
GenerateOptimalSolution ==
    /\ ~ReplayInProgress
    /\ gameState.moveCount <= MaxMoves
    /\ solution' = generateOptimalSolution(gameState)
    /\ replayed' = 0
    /\ result' = NoReturn("generateOptimalSolution")
    /\ UNCHANGED <<gameState, solverVars, manualCount, nextMove, refVars>>

\* const nextMove = solverEngine.getNextOptimalMove()
GetNextOptimalMove ==
    /\ ~ReplayFailed
    /\ gameState.moveCount <= MaxMoves
    /\ nextMove' = getNextOptimalMove(gameState)
    /\ result' = NoReturn("getNextOptimalMove")
    /\ UNCHANGED <<gameState, solverVars, manualCount, solution, replayed, refVars>>

\* makeMove(gameState, move.from, move.to) for the next element of the solution
ReplayMove ==
    /\ ReplayInProgress
    /\ LET move == solution[replayed + 1]
           res == makeMove(gameState, move.from, move.to)
       IN  /\ gameState' = res.gameState
           /\ result' = Return("replayMove", res)
           /\ replayed' = IF res.success THEN replayed + 1 ELSE replayed
    /\ UNCHANGED <<solverVars, manualCount, solution, nextMove, refVars>>

NextSolver ==
    \/ \E fromRod \in Rods, toRod \in Rods : SetupMove(fromRod, toRod)
    \/ GenerateOptimalSolution
    \/ GetNextOptimalMove
    \/ ReplayMove

SpecSolver == InitSolver /\ [][NextSolver]_vars

\* ------------------------------------------------------------- properties
StrictlyDecreasing(disks) == \A j \in 2..Len(disks) : disks[j] < disks[j - 1]

MoveCalls == {"makeMove", "moveSelectedDisk"}
RejectableCalls == {"makeMove", "moveSelectedDisk", "undoLastMove", "selectDisk"}

\* C1: in every state reached by manual commands and auto-solve steps, each
\* rod's disk list is strictly decreasing from bottom to top.
C1_RodsStrictlyDecreasing == \A r \in Rods : StrictlyDecreasing(gameState.rods[r])

\* an auto-solve step has stacked a disk after a manual command was issued
C1_Witness ==
    /\ result.op = "autoSolveMove" /\ result.success
    /\ manualCount > 0
    /\ \E r \in Rods : Len(gameState.rods[r]) >= 2 /\ r = result.toRod

\* C2: the three rods together hold exactly N disks and every rank 1..N is on
\* exactly one rod at exactly one position.
C2_DisksConserved ==
    /\ Len(AllDisks(gameState)) = gameState.settings.numDisks
    /\ \A d \in 1..gameState.settings.numDisks :
          Cardinality({i \in 1..Len(AllDisks(gameState)) : AllDisks(gameState)[i] = d}) = 1

\* a move was undone while disks sit on all three rods
C2_Witness ==
    /\ result.op = "undoLastMove" /\ result.success
    /\ \A r \in Rods : Len(gameState.rods[r]) > 0

\* the verdict the rules give in their stated order
RuleVerdict(gs, fromRod, toRod) ==
    IF gs.gameComplete THEN "GAME_COMPLETE"
    ELSE IF fromRod \notin {0, 1, 2} THEN "INVALID_SOURCE_ROD"
    ELSE IF toRod \notin {0, 1, 2} THEN "INVALID_TARGET_ROD"
    ELSE IF fromRod = toRod THEN "SAME_ROD"
    ELSE IF gs.rods[fromRod] = << >> THEN "EMPTY_SOURCE_ROD"
    ELSE IF gs.rods[toRod] # << >> /\ ~(Last(gs.rods[toRod]) > Last(gs.rods[fromRod]))
         THEN "LARGER_ON_SMALLER"
    ELSE NoError

\* C3: for every reachable state and every pair of rod arguments, validateMove
\* reports the first failing rule in the order GAME_COMPLETE, INVALID_SOURCE_ROD,
\* INVALID_TARGET_ROD, SAME_ROD, EMPTY_SOURCE_ROD, LARGER_ON_SMALLER, and is
\* valid exactly when no rule fails.
C3_ValidateMovePrecedence ==
    \A fromRod \in RodInputs, toRod \in RodInputs :
        LET validation == validateMove(gameState, fromRod, toRod)
            verdict == RuleVerdict(gameState, fromRod, toRod)
        IN  /\ validation.error = verdict
            /\ validation.isValid <=> verdict = NoError

\* a move passed every earlier rule and was rejected by the last one, in a
\* state where a rod is empty as well
C3_Witness ==
    /\ result.op = "makeMove" /\ result.error = "LARGER_ON_SMALLER"
    /\ \E r \in Rods : gameState.rods[r] = << >>

\* C4: a successful makeMove takes the top disk of the source rod, puts it on
\* top of the target rod, leaves the third rod alone, adds 1 to moveCount,
\* appends one record (fromRod, toRod, diskId of the move, moveNumber = the new
\* moveCount) and clears the selection.
C4_MakeMoveEffect ==
    [][ (result'.op \in MoveCalls /\ result'.success) =>
        LET from == result'.fromRod
            to == result'.toRod
            disk == Last(gameState.rods[from])
        IN  /\ from \in Rods /\ to \in Rods /\ from # to
            /\ gameState.rods[from] # << >>
            /\ result'.diskMoved = disk
            /\ gameState'.rods[from] = Front(gameState.rods[from])
            /\ gameState'.rods[to] = Append(gameState.rods[to], disk)
            /\ \A r \in Rods \ {from, to} : gameState'.rods[r] = gameState.rods[r]
            /\ gameState'.moveCount = gameState.moveCount + 1
            /\ gameState'.moveHistory =
                  Append(gameState.moveHistory,
                         [fromRod |-> from, toRod |-> to, diskId |-> disk,
                          moveNumber |-> gameState'.moveCount])
            /\ gameState'.selectedDisk = Null
            /\ gameState'.selectedRod = Null ]_vars

\* a makeMove succeeded on a game that already had a history
C4_Witness ==
    /\ result.op = "makeMove" /\ result.success
    /\ gameState.moveCount >= 2

\* C5: a makeMove, moveSelectedDisk, undoLastMove or selectDisk call that
\* returns success = false leaves the game state as it was before the call.
C5_RejectedLeavesState ==
    [][ (result'.op \in RejectableCalls /\ ~result'.success) => gameState' = gameState ]_vars

\* a move of the selected disk was rejected by the move rules, selection kept
C5_Witness ==
    /\ result.op = "moveSelectedDisk" /\ ~result.success
    /\ result.error = "LARGER_ON_SMALLER"
    /\ gameState.selectedDisk # Null

\* makeMove(gs, fromRod, toRod) followed immediately by undoLastMove
UndoAfterMove(made) == undoLastMove(made.gameState)

\* the undo succeeded and rods, moveCount and moveHistory are those of gs
Restores(undone, gs) ==
    /\ undone.success
    /\ undone.gameState.rods = gs.rods
    /\ undone.gameState.moveCount = gs.moveCount
    /\ undone.gameState.moveHistory = gs.moveHistory

\* C6 as stated: in every non-complete state, every accepted move followed
\* immediately by an undo succeeds and restores rods, moveCount and history.
C6_RoundTripEveryMove ==
    \A fromRod \in RodInputs, toRod \in RodInputs :
        (~gameState.gameComplete /\ validateMove(gameState, fromRod, toRod).isValid)
            => LET made == makeMove(gameState, fromRod, toRod)
                   undone == UndoAfterMove(made)
               IN  made.success /\ Restores(undone, gameState)

\* C6 amended: in every non-complete state, every accepted move that does not
\* complete the game, followed immediately by an undo, succeeds and restores
\* rods, moveCount and moveHistory; after a move that completes the game the
\* undo is rejected with CANNOT_UNDO_COMPLETE_GAME.
C6_RoundTrip ==
    \A fromRod \in RodInputs, toRod \in RodInputs :
        (~gameState.gameComplete /\ validateMove(gameState, fromRod, toRod).isValid)
            => LET made == makeMove(gameState, fromRod, toRod)
                   undone == UndoAfterMove(made)
               IN  /\ made.success
                   /\ IF made.gameComplete
                      THEN /\ ~undone.success
                           /\ undone.error = "CANNOT_UNDO_COMPLETE_GAME"
                           /\ undone.gameState = made.gameState
                      ELSE Restores(undone, gameState)

\* an undo has just taken back a move: redoing that move from here and
\* undoing it again comes back to this state
C6_Witness ==
    /\ result.op = "undoLastMove" /\ result.success
    /\ gameState.moveCount >= 1
    /\ validateMove(gameState, result.toRod, result.fromRod).isValid
    /\ ~makeMove(gameState, result.toRod, result.fromRod).gameComplete
    /\ Restores(UndoAfterMove(makeMove(gameState, result.toRod, result.fromRod)), gameState)

\* C7: moveCount is non-negative, moveHistory has moveCount records and the
\* record at 0-based index i has moveNumber i + 1.
C7_HistoryConsistent ==
    /\ gameState.moveCount >= 0
    /\ Len(gameState.moveHistory) = gameState.moveCount
    /\ \A i \in 1..Len(gameState.moveHistory) : gameState.moveHistory[i].moveNumber = i

\* an undo has shortened a history that still holds two or more records
C7_Witness ==
    /\ result.op = "undoLastMove" /\ result.success
    /\ gameState.moveCount >= 2

\* C8: gameComplete is true exactly when rod 2 holds N, N-1, ..., 1 bottom to
\* top, and the move that puts the last disk there returns gameComplete = true.
C8_CompleteIffSolved ==
    /\ gameState.gameComplete <=> gameState.rods[2] = InitialDisks(gameState.settings.numDisks)
    /\ (result.op \in MoveCalls /\ result.success
            /\ gameState.rods[2] = InitialDisks(gameState.settings.numDisks))
          => result.gameComplete

\* the move that completed the game
C8_Witness ==
    /\ result.op = "makeMove" /\ result.success /\ result.gameComplete
    /\ gameState.gameComplete

\* C9: an undoLastMove call fails with NO_MOVES_TO_UNDO when the history is
\* empty, fails with CANNOT_UNDO_COMPLETE_GAME when the history is non-empty
\* and the game is complete, and otherwise succeeds, taking back the disk of
\* the last record.
C9_UndoOutcome ==
    [][ result'.op = "undoLastMove" =>
        IF gameState.moveHistory = << >>
        THEN ~result'.success /\ result'.error = "NO_MOVES_TO_UNDO"
        ELSE IF gameState.gameComplete
        THEN ~result'.success /\ result'.error = "CANNOT_UNDO_COMPLETE_GAME"
        ELSE /\ result'.success
             /\ result'.error = NoError
             /\ result'.diskMoved = Last(gameState.moveHistory).diskId ]_vars

\* an undo was refused on a completed game
C9_Witness ==
    /\ result.op = "undoLastMove" /\ result.error = "CANNOT_UNDO_COMPLETE_GAME"
    /\ gameState.gameComplete /\ gameState.moveHistory # << >>

\* C10: once gameComplete is true it stays true and rods, moveCount and
\* moveHistory never change again, whatever command or auto-solve step follows.
C10_CompleteIsFinal ==
    [][ gameState.gameComplete =>
        /\ gameState'.gameComplete
        /\ gameState'.rods = gameState.rods
        /\ gameState'.moveCount = gameState.moveCount
        /\ gameState'.moveHistory = gameState.moveHistory ]_vars

\* an auto-solve step was attempted on the completed game and refused
C10_Witness ==
    /\ gameState.gameComplete
    /\ result.op = "autoSolveMove" /\ result.error = "GAME_COMPLETE"

\* ------------------------------------------------------------- the solver
\* the solution at hand was generated on createGameState(numDisks): every
\* move made since the game was created is a replayed element of it
ReplayFromInitial == replayed # Null /\ gameState.moveCount = replayed

AllOnTarget(gs) == Len(gs.rods[2]) = gs.settings.numDisks

\* C11: the solution generated on createGameState(N) has exactly 2^N - 1
\* moves, makeMove accepts each of them in turn, and the game is complete
\* once the last one is made.
C11_InitialSolutionSolves ==
    ReplayFromInitial =>
        /\ ~ReplayFailed
        /\ Len(solution) = Pow2(gameState.settings.numDisks) - 1
        /\ gameState.gameComplete <=> replayed = Len(solution)

\* the whole solution of a 4-disk game has been replayed from the start
C11_Witness ==
    /\ ReplayFromInitial
    /\ gameState.settings.numDisks = MaxSolverDisks
    /\ replayed = Len(solution)
    /\ result.op = "replayMove" /\ result.gameComplete

\* C12: the solution generated on any reachable state that is not complete
\* is accepted by makeMove element by element, and the game is complete once
\* the last one is made.
C12_MidGameSolutionSolves ==
    replayed # Null =>
        /\ ~ReplayFailed
        /\ replayed = Len(solution) => gameState.gameComplete

\* the state in which disk d is on rod positions[d], as a game state
DisksOn(positions, r) == {d \in DOMAIN positions : positions[d] = r}

Stacked(disks) ==
    [i \in 1..Cardinality(disks) |->
        CHOOSE d \in disks : Cardinality({e \in disks : e > d}) = i - 1]

StateOf(positions) ==
    [createGameState(Len(positions)) EXCEPT
        !.rods = [r \in Rods |-> Stacked(DisksOn(positions, r))]]

\* the positions one legal move away
Successors(positions) ==
    LET gs == StateOf(positions) IN
    {getCurrentDiskPositions(makeMove(gs, move[1], move[2]).gameState) :
        move \in {m \in Rods \X Rods : validateMove(gs, m[1], m[2]).isValid}}

\* breadth-first search: distance holds the positions within `moves` moves
\* of the start, frontier those at exactly `moves` moves
RECURSIVE Explore(_, _, _)
Explore(distance, frontier, moves) ==
    IF frontier = {}
    THEN distance
    ELSE LET next == UNION {Successors(positions) : positions \in frontier} \ DOMAIN distance
         IN  Explore(distance @@ [positions \in next |-> moves + 1], next, moves + 1)

Solved(numDisks) == [d \in 1..numDisks |-> 2]

\* the least number of legal moves from each position to the solved one
\* (every legal move can be taken back, so the search starts there)
ShortestDistance ==
    [numDisks \in MinDisks..MaxSolverDisks |->
        Explore([positions \in {Solved(numDisks)} |-> 0], {Solved(numDisks)}, 0)]

\* C13: the solution generated on a reachable state has as many moves as the
\* shortest sequence of legal moves from that state to the solved one.
C13_SolutionIsShortest ==
    result.op = "generateOptimalSolution" =>
        Len(solution) =
            ShortestDistance[gameState.settings.numDisks][getCurrentDiskPositions(gameState)]

\* C14: on a state with every disk on rod 2 generateOptimalSolution returns
\* an empty array and getNextOptimalMove returns null; on any other state
\* getNextOptimalMove returns the first element of the solution, not null.
C14_NextOptimalMove ==
    /\ (result.op = "generateOptimalSolution" /\ AllOnTarget(gameState)) => solution = << >>
    /\ result.op = "getNextOptimalMove" =>
            IF AllOnTarget(gameState)
            THEN nextMove = << >>
            ELSE /\ nextMove # << >>
                 /\ nextMove = <<generateOptimalSolution(gameState)[1]>>

\* the hint was asked for on a game solved by replaying a solution
C14_Witness ==
    /\ result.op = "getNextOptimalMove"
    /\ AllOnTarget(gameState)
    /\ replayed # Null /\ replayed = Len(solution) /\ replayed > 0

\* ---------------------------------------------------------- the sequencer
\* the step is a call of makeMove by the sequencer that made the move
AutoMoveExecuted ==
    /\ result'.op = "autoSolveMove"
    /\ result'.success
    /\ gameState' # gameState

\* a run on a solver with an animation system is paused after its first move
PausedOnFirstMove ==
    /\ hasAnimation
    /\ autoSolveState.isRunning
    /\ autoSolveState.isPaused
    /\ autoSolveState.currentStep = 1

C16_NextMoveAfterCallback ==
    [][ ( /\ hasAnimation
          /\ autoSolveState.isRunning
          /\ autoSolveState.currentStep >= 1
          /\ AutoMoveExecuted ) => animations = 0 ]_vars

\* the step is a call of makeMove by the sequencer
AutoMoveAttempted ==
    /\ result'.op = "autoSolveMove"
    /\ <<gameState, result, autoSolveState>>' # <<gameState, result, autoSolveState>>

\* the move the sequencer makes next is one validateMove rejects
NextMoveIllegal ==
    /\ autoSolveState.currentStep < Len(autoSolveState.solution)
    /\ LET move == autoSolveState.solution[autoSolveState.currentStep + 1]
       IN  ~validateMove(gameState, move.from, move.to).isValid

\* a timer of the running sequencer fires, or the paused sequencer is resumed
Tick ==
    \/ /\ autoSolveState.isRunning /\ ~autoSolveState.isPaused
       /\ \E id \in timers : TimerFires(id)
    \/ /\ autoSolveState.isRunning /\ autoSolveState.isPaused
       /\ ResumeAutoSolve

\* C17: a move the sequencer makes is one validateMove accepts on the live
\* state; when the next move of the solution is one it rejects, the tick
\* leaves the game state as it is and the sequencer idle with no solution.
C17_OnlyLegalAutoMoves ==
    [][ /\ (AutoMoveAttempted /\ result'.success) =>
              validateMove(gameState, result'.fromRod, result'.toRod).isValid
        /\ ((AutoMoveAttempted /\ ~result'.success) \/ (NextMoveIllegal /\ Tick)) =>
              /\ ~result'.success
              /\ gameState' = gameState
              /\ autoSolveState' = IdleAutoSolveState ]_vars

\* a precomputed move was rejected by the size rule and the run was dropped
C17_Witness ==
    /\ result.op = "autoSolveMove"
    /\ result.error = "LARGER_ON_SMALLER"
    /\ autoSolveState = IdleAutoSolveState

\* C18: when makeMove or undoLastMove has changed the game state under a
\* running sequencer, the next call of makeMove by the sequencer is not
\* made: the run is aborted instead.
C18_AbortsAfterManualChange ==
    [][ ( /\ autoSolveState.isRunning
          /\ result.op \in {"makeMove", "undoLastMove"} /\ result.success
          /\ AutoMoveAttempted ) =>
              /\ ~result'.success
              /\ ~autoSolveState'.isRunning ]_vars

\* the run has made every move, called onComplete once and is idle
RunCompleted ==
    /\ autoSolveState = IdleAutoSolveState
    /\ gameState.gameComplete
    /\ gameState.moveCount = calculateMinimumMoves(gameState.settings.numDisks)
    /\ onCompleteCalls = 1

\* C19: a run on createGameState(N) that nobody stops or interferes with
\* makes all its moves, completes the game, calls onComplete once and ends
\* idle; startAutoSolve on a solved game calls onComplete once, makes no
\* move and ends idle.
C19_RunCompletes ==
    /\ autoSolveState.isRunning ~> RunCompleted
    /\ [](onCompleteCalls <= 1)
    /\ [][ ( /\ gameState.gameComplete
              /\ ~autoSolveState.isRunning
              /\ result'.op = "startAutoSolve" ) =>
              /\ gameState' = gameState
              /\ autoSolveState' = IdleAutoSolveState
              /\ onCompleteCalls' = 1 ]_vars

\* startAutoSolve has been called on the game a run had solved
C19_Witness ==
    /\ RunCompleted
    /\ result.op = "startAutoSolve"

\* C20: stopAutoSolve leaves the sequencer idle, with no solution and
\* currentStep 0, and the game state as it is; an idle sequencer makes no
\* move, whatever timer or animation callback fires, until startAutoSolve.
C20_StopIsFinal ==
    [][ /\ result'.op = "stopAutoSolve" =>
              /\ autoSolveState' = IdleAutoSolveState
              /\ autoSolveState'.intervalId \notin timers'
              /\ gameState' = gameState
        /\ (~autoSolveState.isRunning /\ AutoMoveAttempted) => StartAutoSolve ]_vars

\* an animation of a stopped run completed on the idle sequencer, mid-game
C20_Witness ==
    /\ autoSolveState = IdleAutoSolveState
    /\ result.op = "completeCurrentAnimation"
    /\ manualCount = 0
    /\ gameState.moveCount > 0 /\ ~gameState.gameComplete
    /\ timers = {}

\* what the sequencer and the game hold, apart from the value returned last
SequencerState == <<gameState, autoSolveState, timers, animations, onCompleteCalls>>

\* C21: a run that goes on keeps its solution, and its currentStep grows by
\* one exactly when the sequencer makes a move, which is then the element
\* of the solution at the old currentStep; pauseAutoSolve keeps solution
\* and currentStep; pauseAutoSolve on a sequencer that is not running or is
\* paused, and resumeAutoSolve on one that is not paused, change nothing.
C21_MovesInOrder ==
    [][ /\ (autoSolveState.isRunning /\ autoSolveState'.isRunning) =>
              /\ autoSolveState'.solution = autoSolveState.solution
              /\ IF AutoMoveExecuted
                 THEN /\ autoSolveState'.currentStep = autoSolveState.currentStep + 1
                      /\ LET move == autoSolveState.solution[autoSolveState'.currentStep]
                         IN  /\ result'.fromRod = move.from
                             /\ result'.toRod = move.to
                 ELSE autoSolveState'.currentStep = autoSolveState.currentStep
        /\ PauseAutoSolve =>
              /\ autoSolveState'.solution = autoSolveState.solution
              /\ autoSolveState'.currentStep = autoSolveState.currentStep
              /\ gameState' = gameState
        /\ (PauseAutoSolve /\ (~autoSolveState.isRunning \/ autoSolveState.isPaused)) =>
              UNCHANGED SequencerState
        /\ (ResumeAutoSolve /\ (~autoSolveState.isRunning \/ ~autoSolveState.isPaused)) =>
              UNCHANGED SequencerState ]_vars

\* the second move of a run was made by resumeAutoSolve, while the
\* animation of the first was still queued
C21_Witness ==
    /\ autoSolveState.isRunning
    /\ autoSolveState.currentStep = 2
    /\ result.op = "autoSolveMove" /\ result.success
    /\ animations = 2

\* C22: startAutoSolve on a sequencer that is running, paused or not,
\* changes nothing: not the solution, currentStep, the pause flag, the
\* speed or the callbacks, and it makes no move.
C22_StartWhileRunningRejected ==
    [][ ( /\ autoSolveState.isRunning
          /\ \E optionSpeed \in SpeedOptions : StartAutoSolveWith(optionSpeed) ) =>
              UNCHANGED <<SequencerState, speed>> ]_vars

\* startAutoSolve was called on a paused run whose speed is not the default
C22_Witness ==
    /\ autoSolveState.isRunning
    /\ autoSolveState.isPaused
    /\ speed # DefaultSpeed
    /\ result.op = "startAutoSolve"

\* C23: a reset or a change of the disk count made while auto-solve is
\* running, paused or not, stops auto-solve and leaves the solver, the input
\* handler and main.js referring to one new game state object; no move of
\* the sequencer is made afterwards until startAutoSolve is called again.
NewGameStep == HandleReset \/ \E diskCount \in MinDisks..MaxSolverDisks : HandleDiskCountChange(diskCount)

C23_NewGameStopsAutoSolve ==
    [][ /\ (autoSolveState.isRunning /\ NewGameStep) =>
              /\ ~autoSolveState'.isRunning
              /\ timers' = {}
              /\ refs'.solver # refs.solver
              /\ refs'.main = refs'.solver
              /\ refs'.input = refs'.solver
        /\ AutoMoveExecuted =>
              /\ refs.main = refs.solver
              /\ refs.input = refs.solver ]_vars

\* C24: a game of 2 disks can be created; its optimal number of moves is 3,
\* and makeMove(0,1), makeMove(0,2), makeMove(1,2) all succeed on it and end
\* with rod 2 = [2,1], moveCount = 3 and gameComplete = true.
Playthrough(gs) ==
    LET first == makeMove(gs, 0, 1)
        second == makeMove(first.gameState, 0, 2)
        third == makeMove(second.gameState, 1, 2)
    IN  /\ first.success /\ second.success /\ third.success
        /\ third.gameState.rods[2] = <<2, 1>>
        /\ third.gameState.moveCount = 3
        /\ third.gameState.gameComplete

C24_TwoDiskScenario ==
    [][ NewGame(ScenarioDisks) =>
          /\ result'.success
          /\ gameState'.settings.numDisks = ScenarioDisks
          /\ gameState'.metadata.optimalMoves = 3
          /\ Playthrough(gameState') ]_vars

\* C25: on a state that is not complete, an array of moves each of which
\* is legal once the moves before it are made is valid for
\* validateMoveSequence, with one validated entry per move, and
\* executeMoveSequence makes them all: moveCount grows by their number.
RECURSIVE LegalInTurn(_, _, _)
LegalInTurn(gs, moves, i) ==
    \/ i > Len(moves)
    \/ LET res == makeMove(gs, moves[i].fromRod, moves[i].toRod)
       IN  res.success /\ LegalInTurn(res.gameState, moves, i + 1)

C25_LegalSequenceExecutes ==
    [][ \A moves \in MoveSequences :
          ( /\ ~gameState.gameComplete
            /\ LegalInTurn(gameState, moves, 1)
            /\ ExecuteMoveSequence(moves) ) =>
              /\ validateMoveSequence(gameState, moves).isValid
              /\ Len(validateMoveSequence(gameState, moves).validatedMoves) = Len(moves)
              /\ result'.success
              /\ gameState'.moveCount = gameState.moveCount + Len(moves) ]_vars

\* C26: for every N in 3..8 calculateMinimumMoves(N) is 2^N - 1 and is the
\* metadata.optimalMoves createGameState(N) stores; makeMove and
\* undoLastMove leave the stored value as it is.
C26_OptimalMoves ==
    /\ \A numDisks \in MinDisks..MaxDisks :
          /\ calculateMinimumMoves(numDisks) = 2^numDisks - 1
          /\ createGameState(numDisks).metadata.optimalMoves = calculateMinimumMoves(numDisks)
    /\ gameState.metadata.optimalMoves = calculateMinimumMoves(gameState.settings.numDisks)
    /\ gameState.metadata.optimalMoves = 2^gameState.settings.numDisks - 1

\* moves were made and one of them was undone
C26_Witness ==
    /\ result.op = "undoLastMove" /\ result.success
    /\ gameState.moveCount = 2
    /\ gameState.metadata.optimalMoves = 7

\* C27: in the running application the rods, moveCount and moveHistory
\* change only through makeMove and undoLastMove: a disk moved through any
\* input path is moved on a game that is not complete, under the size rule,
\* and leaves a record in moveHistory, so moveHistory.length = moveCount.
BoardChanged ==
    \/ gameState'.rods # gameState.rods
    \/ gameState'.moveCount # gameState.moveCount
    \/ gameState'.moveHistory # gameState.moveHistory

C27_MovesOnlyThroughEngine ==
    [][ BoardChanged =>
          /\ result'.op \in {"makeMove", "moveSelectedDisk", "undoLastMove", "autoSolveMove"}
          /\ result'.success
          /\ ~gameState.gameComplete
          /\ Len(gameState'.moveHistory) = gameState'.moveCount
          /\ \A r \in Rods : \A j \in 2..Len(gameState'.rods[r]) :
                gameState'.rods[r][j] < gameState'.rods[r][j - 1] ]_vars

\* C30: the game state main.js builds at start-up is accepted by
\* validateGameState: on the fresh game validateMove(state, 0, 1) is valid
\* and makeMove(state, 0, 1) succeeds, moves disk 1 and sets moveCount to 1.
FreshGame == gameState = initializeGameState(gameState.settings.numDisks)

C30_StartUpStateIsValid ==
    [][ (FreshGame /\ MakeMove(0, 1, FALSE)) =>
          /\ validateGameState(gameState)
          /\ validateMove(gameState, 0, 1).isValid
          /\ result'.success
          /\ result'.diskMoved = 1
          /\ gameState'.moveCount = 1 ]_vars

\* C28: the disk field of every move generateOptimalSolution returns, and
\* of the hint getNextOptimalMove returns, is the disk on top of rod `from`
\* when the move is made: the disk makeMove reports as moved in the replay.
C28_DiskFieldIsMovedDisk ==
    /\ (result.op = "replayMove" /\ result.success) =>
            solution[replayed].disk = result.diskMoved
    /\ (result.op = "getNextOptimalMove" /\ nextMove # << >>) =>
            nextMove[1].disk = Last(gameState.rods[nextMove[1].from])

\* C29: at every moment at most one trigger of the next step is
\* outstanding, a pending timer or a pending animation callback, and a
\* pending timer is the one autoSolveState.intervalId records.
C29_OneTriggerOutstanding ==
    /\ Cardinality(timers) + animations <= 1
    /\ \A id \in timers : id = autoSolveState.intervalId

====
